---- MODULE Spec2Model ----
(***************************************************************************)
(* Operand locations of the compiler backend                               *)
(* (runtime/vm/compiler/backend/locations.h): the packed Location word,    *)
(* PairLocation, SmallSet / RegisterSet, LocationSummary and FrameRebase.  *)
(*                                                                         *)
(* A Location is its raw word value_, a natural number below               *)
(* 2^kBitsPerWord.  The field layout is the source's; the word itself is   *)
(* kept narrower than the target's so that every value stays inside the    *)
(* model checker's integers: only the width of the stack index field and   *)
(* the range of addresses follow from kBitsPerWord.  A SmallSet's data_ is *)
(* the set of its one-bits, at the target's real width.                    *)
(*                                                                         *)
(* ASSERT is a check that stops the program: every operation is split into *)
(* the value it computes and the conjunction of the ASSERTs on its path    *)
(* (<name>_ASSERT).  An action whose ASSERTs fail sets `aborted` and       *)
(* changes nothing else.                                                   *)
(***************************************************************************)
EXTENDS Integers, Sequences, FiniteSets

VARIABLES
  ARCH_IS_64_BIT,            \* the build target: a 64-bit or a 32-bit word
  aborted,                   \* an ASSERT / UNREACHABLE has failed
  zone,                      \* the zone's PairLocation objects, in allocation order
  locA, locB,                \* two Location values held by the caller
  madeA, madeB,              \* how locA / locB were built (constructor, arguments)
  last,                      \* the last call: its name, arguments and result
  cpu_registers_,            \* RegisterSet::cpu_registers_.data_ (set of one-bits)
  untagged_cpu_registers_,   \* RegisterSet::untagged_cpu_registers_.data_
  fpu_registers_,            \* RegisterSet::fpu_registers_.data_
  hist,                      \* per register location: the last Add / Remove naming it
  contains_call_,            \* LocationSummary::contains_call_
  input_locations_,          \* LocationSummary::input_locations_
  temp_locations_,           \* LocationSummary::temp_locations_
  output_location_           \* LocationSummary::output_location_

vars == <<ARCH_IS_64_BIT, aborted, zone, locA, locB, madeA, madeB, last,
          cpu_registers_, untagged_cpu_registers_, fpu_registers_, hist,
          contains_call_, input_locations_, temp_locations_, output_location_>>

(***************************************************************************)
(* Bounds of the model.                                                    *)
(***************************************************************************)
\* Width of the modelled Location word (uword), in bits.
kBitsPerWord == 20
\* PairLocation objects the zone hands out before the model stops allocating.
MaxPairs == 4

(***************************************************************************)
(* Words: uword arithmetic modulo 2^kBitsPerWord.                          *)
(***************************************************************************)
WordMod == 2 ^ kBitsPerWord

\* static_cast<uword>(n)
ToUword(n) == n % WordMod

RECURSIVE BitOr(_, _)
BitOr(a, b) ==
  IF a = 0 THEN b
  ELSE IF b = 0 THEN a
  ELSE (IF (a % 2 = 1) \/ (b % 2 = 1) THEN 1 ELSE 0) + 2 * BitOr(a \div 2, b \div 2)

RECURSIVE BitAnd(_, _)
BitAnd(a, b) ==
  IF (a = 0) \/ (b = 0) THEN 0
  ELSE (IF (a % 2 = 1) /\ (b % 2 = 1) THEN 1 ELSE 0) + 2 * BitAnd(a \div 2, b \div 2)

BitNot(a) == WordMod - 1 - a
\* a << n on a uword: the bits shifted past the top are lost
ShiftLeft(a, n) ==
  IF n >= kBitsPerWord THEN 0 ELSE (a % (2 ^ (kBitsPerWord - n))) * (2 ^ n)
ShiftRight(a, n) == IF n >= kBitsPerWord THEN 0 ELSE a \div (2 ^ n)

(***************************************************************************)
(* BitField<uword, T, position, size> (vm/bitfield.h).                     *)
(***************************************************************************)
BitField_mask(size) == (2 ^ size) - 1
BitField_mask_in_place(position, size) == ShiftLeft(BitField_mask(size), position)
BitField_is_valid(value, size) ==
  BitAnd(ToUword(value), BitNot(BitField_mask(size))) = 0
BitField_encode(value, position) == ShiftLeft(ToUword(value), position)
BitField_decode(value, position, size) ==
  BitAnd(ShiftRight(value, position), BitField_mask(size))
BitField_update(value, original, position, size) ==
  BitOr(ShiftLeft(ToUword(value), position),
        BitAnd(BitNot(BitField_mask_in_place(position, size)), original))

(***************************************************************************)
(* The target description (vm/constants_*.h): ARM64 and ARM.               *)
(***************************************************************************)
kNumberOfCpuRegisters == IF ARCH_IS_64_BIT THEN 32 ELSE 16
kNumberOfFpuRegisters == IF ARCH_IS_64_BIT THEN 32 ELSE 16
FPREG == IF ARCH_IS_64_BIT THEN 29 ELSE 11
SPREG == IF ARCH_IS_64_BIT THEN 15 ELSE 13
kWordSize == IF ARCH_IS_64_BIT THEN 8 ELSE 4
kBitsPerByte == 8

(***************************************************************************)
(* TemplateLocation: layout.                                               *)
(***************************************************************************)
kKindBitsPos == 0
kKindBitsSize == 5
kPayloadBitsPos == kKindBitsPos + kKindBitsSize
kPayloadBitsSize == kBitsPerWord - kPayloadBitsPos

kInvalidLocation == 0
kLocationTagMask == 3

\* enum Kind
kInvalid == 0
kConstantTag == 1
kPairLocationTag == 2
kUnallocated == 3
kStackSlot == 4
\* A 64bit slot code whose last two bits are those of kPairLocationTag.
kDoubleStackSlot_Tagged == kStackSlot + kPairLocationTag
kDoubleStackSlot == 7
\* The 128bit slot kind given the 64bit slot's code.
kQuadStackSlot_AsDouble == kDoubleStackSlot
kQuadStackSlot == 11
kRegister == 8
kFpuRegister == 12

\* enum Policy
kAny == 0
kPrefersRegister == 1
kRequiresRegister == 2
kRequiresFpuRegister == 3
kWritableRegister == 4
kSameAsFirstInput == 5
Policies == {kAny, kPrefersRegister, kRequiresRegister, kRequiresFpuRegister,
             kWritableRegister, kSameAsFirstInput}

KindField_encode(kind) == BitField_encode(kind, kKindBitsPos)
KindField_decode(value) == BitField_decode(value, kKindBitsPos, kKindBitsSize)
PayloadField_is_valid(payload) == BitField_is_valid(payload, kPayloadBitsSize)
PayloadField_encode(payload) == BitField_encode(payload, kPayloadBitsPos)
PayloadField_decode(value) == BitField_decode(value, kPayloadBitsPos, kPayloadBitsSize)
PayloadField_update(payload, value) ==
  BitField_update(payload, value, kPayloadBitsPos, kPayloadBitsSize)

\* typedef BitField<uword, Policy, 0, 3> PolicyField
kPolicyBitsSize == 3
PolicyField_encode(policy) == BitField_encode(policy, 0)
PolicyField_decode(payload) == BitField_decode(payload, 0, kPolicyBitsSize)

\* Layout for stack slots.
kBitsForBaseReg == IF ARCH_IS_64_BIT THEN 6 ELSE 5
kBitsForStackIndex == kPayloadBitsSize - kBitsForBaseReg
StackSlotBaseField_encode(base) == BitField_encode(base, 0)
StackSlotBaseField_decode(payload) == BitField_decode(payload, 0, kBitsForBaseReg)
StackSlotBaseField_update(base, payload) ==
  BitField_update(base, payload, 0, kBitsForBaseReg)
StackIndexField_encode(index) == BitField_encode(index, kBitsForBaseReg)
StackIndexField_decode(payload) ==
  BitField_decode(payload, kBitsForBaseReg, kBitsForStackIndex)
StackIndexField_update(index, payload) ==
  BitField_update(index, payload, kBitsForBaseReg, kBitsForStackIndex)
kStackIndexBias == 2 ^ (kBitsForStackIndex - 1)

(***************************************************************************)
(* TemplateLocation: constructors, predicates, accessors.                  *)
(***************************************************************************)
\* TemplateLocation(Kind kind, uword payload)
TemplateLocation(kind, payload) ==
  BitOr(KindField_encode(kind), PayloadField_encode(payload))
TemplateLocation_ASSERT(kind, payload) ==
  BitField_is_valid(kind, kKindBitsSize) /\ PayloadField_is_valid(payload)

kind(value_) == KindField_decode(value_)
payload(value_) == PayloadField_decode(value_)
Equals(value_, other) == value_ = other

IsInvalid(value_) == value_ = kInvalidLocation
IsConstant(value_) == BitAnd(value_, kLocationTagMask) = kConstantTag
IsPairLocation(value_) == BitAnd(value_, kLocationTagMask) = kPairLocationTag
\* The test made on the two tag bits instead of the kind field.
IsUnallocated_ByTag(value_) == BitAnd(value_, kLocationTagMask) = kUnallocated
IsUnallocated(value_) == kind(value_) = kUnallocated
IsRegister(value_) == kind(value_) = kRegister
IsFpuRegister(value_) == kind(value_) = kFpuRegister
IsMachineRegisterKind(k) == (k = kRegister) \/ (k = kFpuRegister)
IsMachineRegister(value_) == IsMachineRegisterKind(kind(value_))
IsStackSlot(value_) == kind(value_) = kStackSlot
IsDoubleStackSlot(value_) == kind(value_) = kDoubleStackSlot
IsQuadStackSlot(value_) == kind(value_) = kQuadStackSlot
HasStackIndex(value_) ==
  IsStackSlot(value_) \/ IsDoubleStackSlot(value_) \/ IsQuadStackSlot(value_)

NoLocation == kInvalidLocation

\* The COMPILE_ASSERTs of the default constructor: a build in which one of
\* them fails does not exist.
UntaggedKinds == {kInvalid, kUnallocated, kStackSlot, kDoubleStackSlot,
                  kQuadStackSlot, kRegister, kFpuRegister}
TemplateLocation_COMPILE_ASSERT ==
  /\ \A k \in UntaggedKinds :
       /\ BitAnd(k, kLocationTagMask) # kConstantTag
       /\ BitAnd(k, kLocationTagMask) # kPairLocationTag
  /\ BitAnd(kConstantTag, kLocationTagMask) = kConstantTag
  /\ BitAnd(kPairLocationTag, kLocationTagMask) = kPairLocationTag

Constant(obj) == BitOr(ToUword(obj), kConstantTag)
constant_instruction(value_) == BitAnd(value_, BitNot(kLocationTagMask))
Constant_ASSERT(obj) == obj = constant_instruction(Constant(obj))

UnallocatedLocation(policy) ==
  TemplateLocation(kUnallocated, PolicyField_encode(policy))
UnallocatedLocation_ASSERT(policy) ==
  /\ BitField_is_valid(policy, kPolicyBitsSize)
  /\ TemplateLocation_ASSERT(kUnallocated, PolicyField_encode(policy))
Any == UnallocatedLocation(kAny)
policy(value_) == PolicyField_decode(payload(value_))

RegisterLocation(reg) == TemplateLocation(kRegister, ToUword(reg))
RegisterLocation_ASSERT(reg) == TemplateLocation_ASSERT(kRegister, ToUword(reg))
reg(value_) == payload(value_)

FpuRegisterLocation(fpu) == TemplateLocation(kFpuRegister, ToUword(fpu))
FpuRegisterLocation_ASSERT(fpu) == TemplateLocation_ASSERT(kFpuRegister, ToUword(fpu))
fpu_reg(value_) == payload(value_)

\* The index stored without the bias.
EncodeStackIndex_Unbiased(stack_index) == ToUword(stack_index)
EncodeStackIndex(stack_index) == ToUword(kStackIndexBias + stack_index)
EncodeStackIndex_ASSERT(stack_index) ==
  (-kStackIndexBias <= stack_index) /\ (stack_index < kStackIndexBias)

base_reg(value_) == StackSlotBaseField_decode(payload(value_))
stack_index(value_) == StackIndexField_decode(payload(value_)) - kStackIndexBias

\* The payload the three stack slot constructors build.
StackPayload(index, base) ==
  BitOr(StackSlotBaseField_encode(base),
        StackIndexField_encode(EncodeStackIndex(index)))
StackPayload_ASSERT(index, base) ==
  /\ BitField_is_valid(base, kBitsForBaseReg)
  /\ EncodeStackIndex_ASSERT(index)
  /\ BitField_is_valid(EncodeStackIndex(index), kBitsForStackIndex)

StackSlot(index, base) == TemplateLocation(kStackSlot, StackPayload(index, base))
StackSlot_ASSERT(index, base) ==
  /\ StackPayload_ASSERT(index, base)
  /\ TemplateLocation_ASSERT(kStackSlot, StackPayload(index, base))
  /\ stack_index(StackSlot(index, base)) = index

DoubleStackSlot(index, base) ==
  TemplateLocation(kDoubleStackSlot, StackPayload(index, base))
DoubleStackSlot_ASSERT(index, base) ==
  /\ StackPayload_ASSERT(index, base)
  /\ TemplateLocation_ASSERT(kDoubleStackSlot, StackPayload(index, base))
  /\ stack_index(DoubleStackSlot(index, base)) = index

QuadStackSlot(index, base) ==
  TemplateLocation(kQuadStackSlot, StackPayload(index, base))
QuadStackSlot_ASSERT(index, base) ==
  /\ StackPayload_ASSERT(index, base)
  /\ TemplateLocation_ASSERT(kQuadStackSlot, StackPayload(index, base))
  /\ stack_index(QuadStackSlot(index, base)) = index

\* set_stack_index / set_base_reg return the new value_
\* The index written into the field as it is, EncodeStackIndex left out.
set_stack_index_Raw(value_, index) ==
  PayloadField_update(StackIndexField_update(ToUword(index), payload(value_)), value_)
set_stack_index(value_, index) ==
  PayloadField_update(
    StackIndexField_update(EncodeStackIndex(index), payload(value_)), value_)
\* Only the kind is checked, not the index.
set_stack_index_ASSERT_KindOnly(value_, index) == HasStackIndex(value_)
set_stack_index_ASSERT(value_, index) ==
  /\ HasStackIndex(value_)
  /\ EncodeStackIndex_ASSERT(index)
  /\ BitField_is_valid(EncodeStackIndex(index), kBitsForStackIndex)
  /\ PayloadField_is_valid(
       StackIndexField_update(EncodeStackIndex(index), payload(value_)))

\* The base register left as it was.
set_base_reg_Kept(value_, base) == value_
set_base_reg(value_, base) ==
  PayloadField_update(StackSlotBaseField_update(base, payload(value_)), value_)
set_base_reg_ASSERT(value_, base) ==
  /\ HasStackIndex(value_)
  /\ BitField_is_valid(base, kBitsForBaseReg)
  /\ PayloadField_is_valid(StackSlotBaseField_update(base, payload(value_)))

(***************************************************************************)
(* TemplatePairLocation and the zone that owns the pairs.  locations.cc:    *)
(* Pair allocates a new PairLocation, stores both components and returns   *)
(* its address tagged with kPairLocationTag.                               *)
(***************************************************************************)
kPairLength == 2
\* Address of the zone's first object.
kZoneBase == 64

PairLocationAddress(i) == kZoneBase + (i - 1) * (kPairLength * kWordSize)
PairLocationIndex(addr) == ((addr - kZoneBase) \div (kPairLength * kWordSize)) + 1

\* new PairLocation(); SetAt(0, first); SetAt(1, second)
PairZone(first, second, z) == Append(z, <<first, second>>)
Pair(first, second, z) ==
  BitOr(PairLocationAddress(Len(z) + 1), kPairLocationTag)
Pair_ASSERT(z) ==
  BitAnd(PairLocationAddress(Len(z) + 1), kLocationTagMask) = 0

AsPairLocation(value_) == BitAnd(value_, BitNot(kLocationTagMask))
AsPairLocation_ASSERT(value_) == IsPairLocation(value_)

length == kPairLength
\* The two elements read in the opposite order.
At_Swapped(z, addr, i) == z[PairLocationIndex(addr)][kPairLength - i]
At(z, addr, i) == z[PairLocationIndex(addr)][i + 1]
At_ASSERT(i) == (i >= 0) /\ (i < kPairLength)

Component(z, value_, i) == At(z, AsPairLocation(value_), i)
Component_ASSERT(value_, i) == AsPairLocation_ASSERT(value_) /\ At_ASSERT(i)

\* The placement a Location denotes: a pair denotes its two components.
RECURSIVE Placement(_, _)
Placement(z, value_) ==
  IF IsPairLocation(value_)
  THEN [pair |-> <<Placement(z, Component(z, value_, 0)),
                   Placement(z, Component(z, value_, 1))>>]
  ELSE [loc |-> value_]

(***************************************************************************)
(* FrameRebase.  A frame is [old_base_, new_base_, stack_delta_]; Rebase   *)
(* returns the location, the zone after its allocations and whether every  *)
(* ASSERT on the way held.  The two arguments of Location::Pair are        *)
(* evaluated in an order the compiler chooses: `order`.                    *)
(***************************************************************************)
\* Lines 826-828: the location has a stack index and its base is old_base_.
RebaseStack(frame, loc) ==
  LET based == set_base_reg(loc, frame.new_base_)
      idx == stack_index(based) + frame.stack_delta_
  IN [ok |-> set_base_reg_ASSERT(loc, frame.new_base_)
               /\ set_stack_index_ASSERT(based, idx),
      loc |-> set_stack_index(based, idx)]

RECURSIVE Rebase(_, _, _, _)
\* Both arguments of Location::Pair rebase Component(0).
Rebase_Component0Twice(frame, loc, z, order) ==
  IF IsPairLocation(loc) THEN
    LET c0 == Component(z, loc, 0)
        ra == Rebase(frame, c0, z, order)
        rb == Rebase(frame, c0, ra.zone, order)
        r0 == IF order = "ltr" THEN ra ELSE rb
        r1 == IF order = "ltr" THEN rb ELSE ra
    IN [ok |-> ra.ok /\ rb.ok /\ Pair_ASSERT(rb.zone),
        loc |-> Pair(r0.loc, r1.loc, rb.zone),
        zone |-> PairZone(r0.loc, r1.loc, rb.zone)]
  ELSE IF ~HasStackIndex(loc) \/ base_reg(loc) # frame.old_base_ THEN
    [ok |-> TRUE, loc |-> loc, zone |-> z]
  ELSE
    [ok |-> RebaseStack(frame, loc).ok,
     loc |-> RebaseStack(frame, loc).loc,
     zone |-> z]

Rebase(frame, loc, z, order) ==
  IF IsPairLocation(loc) THEN
    LET c0 == Component(z, loc, 0)
        c1 == Component(z, loc, 1)
        ra == Rebase(frame, IF order = "ltr" THEN c0 ELSE c1, z, order)
        rb == Rebase(frame, IF order = "ltr" THEN c1 ELSE c0, ra.zone, order)
        r0 == IF order = "ltr" THEN ra ELSE rb
        r1 == IF order = "ltr" THEN rb ELSE ra
    IN [ok |-> ra.ok /\ rb.ok /\ Pair_ASSERT(rb.zone),
        loc |-> Pair(r0.loc, r1.loc, rb.zone),
        zone |-> PairZone(r0.loc, r1.loc, rb.zone)]
  ELSE IF ~HasStackIndex(loc) \/ base_reg(loc) # frame.old_base_ THEN
    [ok |-> TRUE, loc |-> loc, zone |-> z]
  ELSE
    [ok |-> RebaseStack(frame, loc).ok,
     loc |-> RebaseStack(frame, loc).loc,
     zone |-> z]

(***************************************************************************)
(* The caller: inputs, and the bookkeeping every call does.                *)
(***************************************************************************)
Slots == {"A", "B"}
\* ConstantInstr objects of the flow graph (word aligned addresses).
ConstantInstrs == {256, 260, 280}
RegisterCodes == {0, 1, kNumberOfCpuRegisters - 1}
FpuRegisterCodes == {0, 1, kNumberOfFpuRegisters - 1}
BaseRegisters == {FPREG, (2 ^ kBitsForBaseReg) - 1}
StackIndexes == {-kStackIndexBias - 1, -kStackIndexBias, -1, 0,
                 kStackIndexBias - 1, kStackIndexBias}
StackConstructors == {"StackSlot", "DoubleStackSlot", "QuadStackSlot"}

Made(ctor, args) == [ctor |-> ctor, args |-> args]
NoCallYet == [op |-> "none", args |-> <<>>, ok |-> TRUE]

locVars == <<locA, locB, madeA, madeB>>
regVars == <<cpu_registers_, untagged_cpu_registers_, fpu_registers_, hist>>
sumVars == <<contains_call_, input_locations_, temp_locations_, output_location_>>

Store(s, w, m) ==
  /\ locA' = IF s = "A" THEN w ELSE locA
  /\ madeA' = IF s = "A" THEN m ELSE madeA
  /\ locB' = IF s = "B" THEN w ELSE locB
  /\ madeB' = IF s = "B" THEN m ELSE madeB

\* A constructor call: it returns w into slot s, or one of its ASSERTs fails.
Construct(s, ctor, args, ok, w) ==
  /\ ~aborted
  /\ last' = [op |-> ctor, args |-> args, ok |-> ok]
  /\ aborted' = ~ok
  /\ IF ok THEN Store(s, w, Made(ctor, args)) ELSE UNCHANGED locVars
  /\ UNCHANGED <<ARCH_IS_64_BIT, zone, regVars, sumVars>>

MakeNoLocation(s) == Construct(s, "Invalid", <<>>, TRUE, NoLocation)

MakeConstant(s, obj) ==
  Construct(s, "Constant", <<obj>>, Constant_ASSERT(obj), Constant(obj))

MakeUnallocated(s, p) ==
  Construct(s, "Unallocated", <<p>>, UnallocatedLocation_ASSERT(p),
            UnallocatedLocation(p))

MakeRegister(s, r) ==
  Construct(s, "Register", <<r>>, RegisterLocation_ASSERT(r), RegisterLocation(r))

MakeFpuRegister(s, r) ==
  Construct(s, "FpuRegister", <<r>>, FpuRegisterLocation_ASSERT(r),
            FpuRegisterLocation(r))

MakeStackSlot(s, i, b) ==
  Construct(s, "StackSlot", <<i, b>>, StackSlot_ASSERT(i, b), StackSlot(i, b))

MakeDoubleStackSlot(s, i, b) ==
  Construct(s, "DoubleStackSlot", <<i, b>>, DoubleStackSlot_ASSERT(i, b),
            DoubleStackSlot(i, b))

MakeQuadStackSlot(s, i, b) ==
  Construct(s, "QuadStackSlot", <<i, b>>, QuadStackSlot_ASSERT(i, b),
            QuadStackSlot(i, b))

\* Values every specification starts from: the target, a default constructed
\* Location in each slot and an empty zone.
InitCommon ==
  /\ ARCH_IS_64_BIT \in BOOLEAN
  /\ aborted = FALSE
  /\ zone = <<>>
  /\ locA = NoLocation /\ madeA = Made("Invalid", <<>>)
  /\ locB = NoLocation /\ madeB = Made("Invalid", <<>>)
  /\ last = NoCallYet

\* No RegisterSet is in use.
NoRegisterSet ==
  /\ cpu_registers_ = {} /\ untagged_cpu_registers_ = {} /\ fpu_registers_ = {}
  /\ hist = <<>>

\* No LocationSummary is in use.
NoLocationSummary ==
  /\ contains_call_ = "none"
  /\ input_locations_ = <<>> /\ temp_locations_ = <<>>
  /\ output_location_ = NoLocation

(***************************************************************************)
(* SpecLoc: the caller builds Locations with the constructors.             *)
(***************************************************************************)
NextLoc ==
  \E s \in Slots :
    \/ MakeNoLocation(s)
    \/ \E obj \in ConstantInstrs : MakeConstant(s, obj)
    \/ \E p \in Policies : MakeUnallocated(s, p)
    \/ \E r \in RegisterCodes : MakeRegister(s, r)
    \/ \E r \in FpuRegisterCodes : MakeFpuRegister(s, r)
    \/ \E i \in StackIndexes, b \in BaseRegisters : MakeStackSlot(s, i, b)
    \/ \E i \in StackIndexes, b \in BaseRegisters : MakeDoubleStackSlot(s, i, b)
    \/ \E i \in StackIndexes, b \in BaseRegisters : MakeQuadStackSlot(s, i, b)

InitLoc == InitCommon /\ NoRegisterSet /\ NoLocationSummary

SpecLoc == InitLoc /\ [][NextLoc]_vars

\* C1: two Locations built by different constructors, or by the same
\* constructor from different arguments, have different raw words (write())
\* and do not compare Equals.
C1_EncodingInjective ==
  (madeA # madeB) => ((locA # locB) /\ ~Equals(locA, locB))

\* C1 witness: a word sized and a double sized slot at the same offset and base.
C1_Witness ==
  /\ madeA.ctor = "StackSlot" /\ madeB.ctor = "DoubleStackSlot"
  /\ madeA.args = madeB.args
  /\ ~Equals(locA, locB)

\* C2: a stack slot constructor given an offset in [-kStackIndexBias,
\* kStackIndexBias) and a base register that fits the base field returns (no
\* ASSERT fails), and the location it returns has that offset as stack_index()
\* and that register as base_reg().
C2_StackRoundTrip ==
  /\ \A s \in Slots :
       LET m == IF s = "A" THEN madeA ELSE madeB
           l == IF s = "A" THEN locA ELSE locB
       IN m.ctor \in StackConstructors =>
            /\ stack_index(l) = m.args[1]
            /\ base_reg(l) = m.args[2]
            /\ HasStackIndex(l)
  /\ (/\ last.op \in StackConstructors
      /\ -kStackIndexBias <= last.args[1]
      /\ last.args[1] < kStackIndexBias
      /\ last.args[2] \in 0 .. ((2 ^ kBitsForBaseReg) - 1)) => last.ok

\* C2 witness: the most negative offset on the widest base register code.
C2_Witness ==
  /\ madeA = Made("QuadStackSlot", <<-kStackIndexBias, (2 ^ kBitsForBaseReg) - 1>>)
  /\ stack_index(locA) = -kStackIndexBias
  /\ madeB = Made("StackSlot", <<kStackIndexBias - 1, FPREG>>)

\* The constructors of the kinds that carry no tag.
UntaggedConstructors ==
  {"Invalid", "Unallocated", "Register", "FpuRegister"} \cup StackConstructors

\* C11: the raw word of a Location built as Invalid, Unallocated, StackSlot,
\* DoubleStackSlot, QuadStackSlot, Register or FpuRegister has last two bits
\* that are neither kConstantTag nor kPairLocationTag, and IsConstant() and
\* IsPairLocation() are both false on it; the build's COMPILE_ASSERTs on the
\* kind codes hold.
C11_TagNonCollision ==
  \A s \in Slots :
    LET m == IF s = "A" THEN madeA ELSE madeB
        l == IF s = "A" THEN locA ELSE locB
    IN m.ctor \in UntaggedConstructors =>
         /\ BitAnd(l, kLocationTagMask) \notin {kConstantTag, kPairLocationTag}
         /\ ~IsConstant(l)
         /\ ~IsPairLocation(l)
         /\ TemplateLocation_COMPILE_ASSERT

\* C11 witness: a 64bit slot at the most negative offset beside an fpu
\* register of the highest code; both words end in untagged bits.
C11_Witness ==
  /\ madeA = Made("DoubleStackSlot", <<-kStackIndexBias, FPREG>>)
  /\ madeB = Made("FpuRegister", <<kNumberOfFpuRegisters - 1>>)
  /\ BitAnd(locA, kLocationTagMask) = 3
  /\ BitAnd(locB, kLocationTagMask) = 0
  /\ ~IsConstant(locA) /\ ~IsPairLocation(locA)

(***************************************************************************)
(* SpecRebase: the caller builds a Location in slot A and rebases it.      *)
(***************************************************************************)
Orders == {"ltr", "rtl"}
Frame(old, new, delta) ==
  [old_base_ |-> old, new_base_ |-> new, stack_delta_ |-> delta]

\* FrameRebase(old, new, delta).Rebase(locA); the result is kept in last.out
DoRebase(frame, order) ==
  /\ ~aborted
  /\ LET r == Rebase(frame, locA, zone, order)
     IN /\ Len(r.zone) <= MaxPairs
        /\ last' = [op |-> "Rebase",
                    args |-> <<frame.old_base_, frame.new_base_, frame.stack_delta_>>,
                    ok |-> r.ok, in |-> locA, made |-> madeA,
                    placement |-> Placement(zone, locA),
                    out |-> IF r.ok THEN r.loc ELSE NoLocation]
        /\ aborted' = ~r.ok
        /\ zone' = IF r.ok THEN r.zone ELSE zone
  /\ UNCHANGED <<ARCH_IS_64_BIT, locVars, regVars, sumVars>>

RebaseIndexes == {-kStackIndexBias, -3, 0, kStackIndexBias - 1}
RebaseBases == {FPREG, SPREG}
RebaseFrames ==
  {Frame(FPREG, new, delta) : new \in {FPREG, SPREG}, delta \in {-1, 0, 10}}

NextRebase ==
  \/ MakeNoLocation("A")
  \/ \E obj \in ConstantInstrs : MakeConstant("A", obj)
  \/ \E p \in {kAny, kRequiresRegister} : MakeUnallocated("A", p)
  \/ \E r \in {0, FPREG} : MakeRegister("A", r)
  \/ \E r \in {0, FPREG} : MakeFpuRegister("A", r)
  \/ \E i \in RebaseIndexes, b \in RebaseBases : MakeStackSlot("A", i, b)
  \/ \E i \in RebaseIndexes, b \in RebaseBases : MakeDoubleStackSlot("A", i, b)
  \/ \E i \in RebaseIndexes, b \in RebaseBases : MakeQuadStackSlot("A", i, b)
  \/ \E f \in RebaseFrames, o \in Orders : DoRebase(f, o)

SpecRebase == InitLoc /\ [][NextRebase]_vars

\* C3: Rebase of a location that is not a pair.  A stack slot of any of the
\* three sizes on base old_base at offset k, with k + delta in range, comes
\* back on base new_base at offset k + delta.  A stack slot on another base,
\* and an Invalid, Constant, Unallocated, Register or FpuRegister location,
\* comes back Equals to itself.
C3_RebaseNonPair ==
  (last.op = "Rebase" /\ ~IsPairLocation(last.in)) =>
    LET m == last.made
        old == last.args[1]
        new == last.args[2]
        delta == last.args[3]
    IN IF m.ctor \in StackConstructors /\ m.args[2] = old
       THEN (/\ -kStackIndexBias <= m.args[1] + delta
             /\ m.args[1] + delta < kStackIndexBias) =>
               /\ last.ok
               /\ HasStackIndex(last.out)
               /\ base_reg(last.out) = new
               /\ stack_index(last.out) = m.args[1] + delta
       ELSE last.ok /\ Equals(last.out, last.in)

\* C3 witness: on a 64-bit target StackSlot(-3, FP) rebased by
\* FrameRebase(FP, SP, 10) is StackSlot(7, SP).
C3_Witness ==
  /\ ARCH_IS_64_BIT
  /\ last.op = "Rebase"
  /\ last.made = Made("StackSlot", <<-3, FPREG>>)
  /\ last.args = <<FPREG, SPREG, 10>>
  /\ last.out = StackSlot(7, SPREG)

(***************************************************************************)
(* SpecRange: the caller builds a stack slot in slot A, at offsets on both *)
(* sides of both ends of the range, and rebases it.                        *)
(***************************************************************************)
NextRange ==
  \/ \E i \in StackIndexes, b \in RebaseBases : MakeStackSlot("A", i, b)
  \/ \E i \in StackIndexes, b \in RebaseBases : MakeDoubleStackSlot("A", i, b)
  \/ \E i \in StackIndexes, b \in RebaseBases : MakeQuadStackSlot("A", i, b)
  \/ \E f \in RebaseFrames, o \in Orders : DoRebase(f, o)

SpecRange == InitLoc /\ [][NextRange]_vars

InStackIndexRange(k) == (-kStackIndexBias <= k) /\ (k < kStackIndexBias)

\* C12: a stack slot constructor given an offset below -kStackIndexBias or
\* not below kStackIndexBias fails a check and returns no location.  Rebase
\* of a stack slot on old_base at offset k fails a check when k + delta is
\* outside that range; when Rebase returns, the result has exactly the offset
\* k + delta, the base new_base and the kind of its argument.
C12_NoSilentWrap ==
  /\ (last.op \in StackConstructors /\ ~InStackIndexRange(last.args[1])) =>
       (~last.ok /\ aborted)
  /\ madeA.ctor \in StackConstructors =>
       (InStackIndexRange(madeA.args[1]) /\ stack_index(locA) = madeA.args[1])
  /\ (/\ last.op = "Rebase"
      /\ last.made.ctor \in StackConstructors
      /\ last.made.args[2] = last.args[1]) =>
       LET k == last.made.args[1] + last.args[3] IN
       IF InStackIndexRange(k)
       THEN /\ last.ok
            /\ stack_index(last.out) = k
            /\ base_reg(last.out) = last.args[2]
            /\ kind(last.out) = kind(last.in)
       ELSE ~last.ok /\ aborted /\ last.out = NoLocation

\* C12 witness: QuadStackSlot(kStackIndexBias - 1, FP) rebased by
\* FrameRebase(FP, SP, 10) has failed a check.
C12_Witness ==
  /\ last.op = "Rebase"
  /\ last.made = Made("QuadStackSlot", <<kStackIndexBias - 1, FPREG>>)
  /\ last.args = <<FPREG, SPREG, 10>>
  /\ ~last.ok
  /\ aborted

(***************************************************************************)
(* SpecPair: the caller builds Locations, pairs them (pairs of pairs       *)
(* too), reads components and rebases.                                     *)
(***************************************************************************)
SlotValue(s) == IF s = "A" THEN locA ELSE locB

\* slot s = Location::Pair(first, second)
DoPair(s, first, second) ==
  /\ ~aborted
  /\ 2 * (Len(zone) + 1) <= MaxPairs
  /\ last' = [op |-> "Pair", args |-> <<first, second>>, ok |-> Pair_ASSERT(zone)]
  /\ aborted' = ~Pair_ASSERT(zone)
  /\ IF Pair_ASSERT(zone)
     THEN /\ zone' = PairZone(first, second, zone)
          /\ Store(s, Pair(first, second, zone), Made("Pair", <<first, second>>))
     ELSE UNCHANGED <<zone, locVars>>
  /\ UNCHANGED <<ARCH_IS_64_BIT, regVars, sumVars>>

\* locA.Component(i); the result is kept in last.out
DoComponent(i) ==
  /\ ~aborted
  /\ last' = [op |-> "Component", args |-> <<i>>, ok |-> Component_ASSERT(locA, i),
              in |-> locA,
              out |-> IF Component_ASSERT(locA, i)
                      THEN Component(zone, locA, i) ELSE NoLocation]
  /\ aborted' = ~Component_ASSERT(locA, i)
  /\ UNCHANGED <<ARCH_IS_64_BIT, zone, locVars, regVars, sumVars>>

PairFrames == {Frame(FPREG, SPREG, 10)}
ComponentIndexes == {-1, 0, 1, 2}

\* The caller builds its operands first and pairs them afterwards.
NextPair ==
  \/ zone = <<>> /\ \E s \in Slots, r \in {0, 1} : MakeRegister(s, r)
  \/ zone = <<>> /\ \E s \in Slots, b \in {FPREG, SPREG} : MakeStackSlot(s, -3, b)
  \/ \E s \in Slots, x \in Slots, y \in Slots :
       DoPair(s, SlotValue(x), SlotValue(y))
  \/ \E i \in ComponentIndexes : DoComponent(i)
  \/ \E f \in PairFrames, o \in Orders : DoRebase(f, o)

SpecPair == InitLoc /\ [][NextPair]_vars

\* C8: invariant I1 with pairs: two Locations are Equals (their raw words are
\* equal) exactly when they denote the same placement, a pair denoting the
\* placements of its two components.
C8_EqualsIffSamePlacement ==
  Equals(locA, locB) <=> (Placement(zone, locA) = Placement(zone, locB))

\* C9: Rebase of a pair-reference p returns a pair-reference q, a new one,
\* whose component i denotes what Rebase of p's component i alone denotes
\* (raw-equal to it when that component is no pair), whatever the order in
\* which the two are rebased; p's PairLocation is as it was.
C9_RebasePair ==
  (last.op = "Rebase" /\ last.ok /\ IsPairLocation(last.in)) =>
    LET f == Frame(last.args[1], last.args[2], last.args[3]) IN
    /\ IsPairLocation(last.out)
    /\ last.out # last.in
    /\ Placement(zone, last.in) = last.placement
    /\ \A i \in {0, 1}, o \in Orders :
         LET c == Component(zone, last.in, i)
             q == Component(zone, last.out, i)
             r == Rebase(f, c, zone, o)
         IN /\ r.ok
            /\ Placement(zone, q) = Placement(r.zone, r.loc)
            /\ ~IsPairLocation(c) => Equals(q, r.loc)

\* C9 witness: a pair whose first component is a pair holding a slot on
\* old_base, and whose second component is a slot on old_base, was rebased.
C9_Witness ==
  /\ last.op = "Rebase" /\ last.ok
  /\ IsPairLocation(last.in)
  /\ IsPairLocation(Component(zone, last.in, 0))
  /\ Component(zone, Component(zone, last.in, 0), 1) = StackSlot(-3, FPREG)
  /\ Component(zone, Component(zone, last.out, 0), 1) = StackSlot(7, SPREG)
  /\ Component(zone, last.in, 1) = StackSlot(-3, FPREG)
  /\ Component(zone, last.out, 1) = StackSlot(7, SPREG)

\* C10: p = Pair(x, y) is a pair-reference and no Register location, its pair
\* has length 2, p.Component(0) Equals x and p.Component(1) Equals y;
\* Component(i) returns for i in {0, 1} on a pair-reference and fails its
\* check for every other i.
C10_PairRoundTrip ==
  /\ \A s \in Slots :
       LET m == IF s = "A" THEN madeA ELSE madeB
           p == SlotValue(s)
       IN m.ctor = "Pair" =>
            /\ IsPairLocation(p)
            /\ ~IsRegister(p)
            /\ length = 2
            /\ Equals(Component(zone, p, 0), m.args[1])
            /\ Equals(Component(zone, p, 1), m.args[2])
  /\ last.op = "Component" =>
       /\ last.ok <=> (IsPairLocation(last.in) /\ last.args[1] \in {0, 1})
       /\ (last.ok /\ madeA.ctor = "Pair") =>
            Equals(last.out, madeA.args[last.args[1] + 1])

\* C10 witness: on a 32-bit target Pair(RegisterLocation(0),
\* RegisterLocation(1)).Component(1) was read and is RegisterLocation(1).
C10_Witness ==
  /\ ~ARCH_IS_64_BIT
  /\ madeA = Made("Pair", <<RegisterLocation(0), RegisterLocation(1)>>)
  /\ last.op = "Component" /\ last.args = <<1>> /\ last.ok
  /\ reg(last.out) = 1 /\ IsRegister(last.out)
  /\ ~IsRegister(locA) /\ IsPairLocation(locA)

(***************************************************************************)
(* SmallSet<T>: data_ is the set of the one-bits of an intptr_t.           *)
(***************************************************************************)
\* enum Representation
kTagged == 1
kUntagged == 2
kUnboxedDouble == 3

\* Width of int, the type of the literal 1 that ToMask shifts.
kBitsPerInt == 32

\* 1 << value is an int; the return converts it to intptr_t.  Bit 31 is the
\* int's sign, which the conversion copies into every higher bit of a wider
\* intptr_t.  Register codes are below kNumberOfCpuRegisters and
\* kNumberOfFpuRegisters, so no wider shift happens.
ToMask(value) ==
  CASE value < kBitsPerInt - 1 -> {value}
    [] value = kBitsPerInt - 1 ->
         (kBitsPerInt - 1) .. ((kWordSize * kBitsPerByte) - 1)
ToMask_ASSERT(value) == value < kWordSize * kBitsPerByte

SmallSet_Contains(data_, value) == (data_ \cap ToMask(value)) # {}
SmallSet_Add(data_, value) == data_ \cup ToMask(value)
SmallSet_Remove(data_, value) == data_ \ ToMask(value)
SmallSet_IsEmpty(data_) == data_ = {}

(***************************************************************************)
(* RegisterSet.                                                            *)
(***************************************************************************)
ContainsRegister(r) == SmallSet_Contains(cpu_registers_, r)
ContainsFpuRegister(r) == SmallSet_Contains(fpu_registers_, r)
HasUntaggedValues ==
  ~SmallSet_IsEmpty(untagged_cpu_registers_) \/ ~SmallSet_IsEmpty(fpu_registers_)
IsTagged(r) == ~SmallSet_Contains(untagged_cpu_registers_, r)

\* locations.cc: the number of one-bits of the mask
RegisterCount(registers) == Cardinality(registers)
cpu_registers == cpu_registers_
fpu_registers == fpu_registers_
CpuRegisterCount == RegisterCount(cpu_registers)
FpuRegisterCount == RegisterCount(fpu_registers)

\* bool Contains(Location loc), for a register or an fpu register location
Contains(loc) ==
  IF IsRegister(loc) THEN ContainsRegister(reg(loc))
  ELSE ContainsFpuRegister(fpu_reg(loc))
Contains_ASSERT(loc) ==
  /\ IsRegister(loc) \/ IsFpuRegister(loc)
  /\ ToMask_ASSERT(payload(loc))

\* hist[l]: whether the last Add / Remove naming l was an Add, and whether l
\* was added with a representation other than kTagged since it was last out.
NotNamed == [op |-> "none", untagged |-> FALSE]

\* void Add(Location loc, Representation rep)
RegisterSet_Add(loc, rep) ==
  /\ ~aborted
  /\ IF IsRegister(loc) THEN
       /\ aborted' = ~ToMask_ASSERT(reg(loc))
       /\ IF ToMask_ASSERT(reg(loc))
          THEN /\ cpu_registers_' = SmallSet_Add(cpu_registers_, reg(loc))
               /\ untagged_cpu_registers_' =
                    IF rep # kTagged
                    THEN SmallSet_Add(untagged_cpu_registers_, reg(loc))
                    ELSE untagged_cpu_registers_
          ELSE UNCHANGED <<cpu_registers_, untagged_cpu_registers_>>
       /\ UNCHANGED fpu_registers_
     ELSE IF IsFpuRegister(loc) THEN
       /\ aborted' = ~ToMask_ASSERT(fpu_reg(loc))
       /\ fpu_registers_' = IF ToMask_ASSERT(fpu_reg(loc))
                            THEN SmallSet_Add(fpu_registers_, fpu_reg(loc))
                            ELSE fpu_registers_
       /\ UNCHANGED <<cpu_registers_, untagged_cpu_registers_>>
     ELSE UNCHANGED <<aborted, cpu_registers_, untagged_cpu_registers_,
                      fpu_registers_>>
  /\ hist' = [l \in DOMAIN hist |->
                IF l = loc
                THEN [op |-> "Add",
                      untagged |-> (rep # kTagged)
                                     \/ (hist[l].op = "Add" /\ hist[l].untagged)]
                ELSE hist[l]]
  /\ last' = [op |-> "Add", args |-> <<loc, rep>>, ok |-> ~aborted']
  /\ UNCHANGED <<ARCH_IS_64_BIT, zone, locVars, sumVars>>

\* void Remove(Location loc)
RegisterSet_Remove(loc) ==
  /\ ~aborted
  /\ IF IsRegister(loc) THEN
       /\ aborted' = ~ToMask_ASSERT(reg(loc))
       /\ cpu_registers_' = IF ToMask_ASSERT(reg(loc))
                            THEN SmallSet_Remove(cpu_registers_, reg(loc))
                            ELSE cpu_registers_
       /\ UNCHANGED fpu_registers_
     ELSE IF IsFpuRegister(loc) THEN
       /\ aborted' = ~ToMask_ASSERT(fpu_reg(loc))
       /\ fpu_registers_' = IF ToMask_ASSERT(fpu_reg(loc))
                            THEN SmallSet_Remove(fpu_registers_, fpu_reg(loc))
                            ELSE fpu_registers_
       /\ UNCHANGED cpu_registers_
     ELSE UNCHANGED <<aborted, cpu_registers_, fpu_registers_>>
  /\ UNCHANGED untagged_cpu_registers_
  /\ hist' = [l \in DOMAIN hist |->
                IF l = loc THEN [op |-> "Remove", untagged |-> FALSE] ELSE hist[l]]
  /\ last' = [op |-> "Remove", args |-> <<loc>>, ok |-> ~aborted']
  /\ UNCHANGED <<ARCH_IS_64_BIT, zone, locVars, sumVars>>

\* bool Contains(Location loc): UNREACHABLE() for any other kind of location
RegisterSet_Contains(loc) ==
  /\ ~aborted
  /\ aborted' = ~Contains_ASSERT(loc)
  /\ last' = [op |-> "Contains", args |-> <<loc>>, ok |-> Contains_ASSERT(loc),
              out |-> IF Contains_ASSERT(loc) THEN Contains(loc) ELSE FALSE]
  /\ UNCHANGED <<ARCH_IS_64_BIT, zone, locVars, regVars, sumVars>>

(***************************************************************************)
(* SpecRegs: Add, Remove and Contains on one RegisterSet.                  *)
(***************************************************************************)
CpuLocations == {RegisterLocation(r) : r \in {0, kNumberOfCpuRegisters - 1}}
FpuLocations == {FpuRegisterLocation(r) : r \in {0, kNumberOfFpuRegisters - 1}}
Representations == {kTagged, kUntagged, kUnboxedDouble}

InitRegs ==
  /\ InitCommon
  /\ cpu_registers_ = {} /\ untagged_cpu_registers_ = {} /\ fpu_registers_ = {}
  /\ hist = [l \in CpuLocations \cup FpuLocations |-> NotNamed]
  /\ NoLocationSummary

NextRegs ==
  \/ \E l \in CpuLocations \cup FpuLocations \cup {StackSlot(0, FPREG)},
        rep \in Representations : RegisterSet_Add(l, rep)
  \/ \E l \in CpuLocations \cup FpuLocations \cup {StackSlot(0, FPREG)} :
        RegisterSet_Remove(l)
  \/ \E l \in CpuLocations \cup FpuLocations \cup {StackSlot(0, FPREG)} :
        RegisterSet_Contains(l)

SpecRegs == InitRegs /\ [][NextRegs]_vars

\* C6: HasUntaggedValues() is true exactly when a general-purpose register
\* that is in the set (its last Add / Remove was an Add) was added with a
\* representation other than kTagged, or an fpu register is in the set.
C6_HasUntaggedIffUsedUntagged ==
  HasUntaggedValues <=>
    \/ \E l \in CpuLocations : hist[l].op = "Add" /\ hist[l].untagged
    \/ \E l \in FpuLocations : hist[l].op = "Add"

\* C7: Contains(loc) is true exactly when the last Add / Remove naming loc
\* was an Add, and CpuRegisterCount() / FpuRegisterCount() are the numbers of
\* general-purpose / fpu registers for which that is so.
C7_SetSemantics ==
  /\ \A l \in CpuLocations \cup FpuLocations :
       Contains(l) <=> (hist[l].op = "Add")
  /\ CpuRegisterCount = Cardinality({l \in CpuLocations : hist[l].op = "Add"})
  /\ FpuRegisterCount = Cardinality({l \in FpuLocations : hist[l].op = "Add"})

(***************************************************************************)
(* LocationSummary.                                                        *)
(***************************************************************************)
\* enum ContainsCall
kNoCall == 0
kCall == 1
kCallCalleeSafe == 2
kCallOnSlowPath == 3
kCallOnSharedSlowPath == 4
ContainsCalls == {kNoCall, kCall, kCallCalleeSafe, kCallOnSlowPath,
                  kCallOnSharedSlowPath}

\* The mode test that leaves kCallCalleeSafe out.
always_calls_OnlyCall == contains_call_ = kCall
always_calls == (contains_call_ = kCall) \/ (contains_call_ = kCallCalleeSafe)
callee_safe_call == contains_call_ = kCallCalleeSafe
can_call == contains_call_ # kNoCall
HasCallOnSlowPath == can_call /\ ~always_calls
call_on_shared_slow_path == contains_call_ = kCallOnSharedSlowPath

\* The arrays are indexed from 0.
num_inputs_ == Len(input_locations_)
num_temps_ == Len(temp_locations_)
in(index) == input_locations_[index + 1]
temp(index) == temp_locations_[index + 1]
out(index) == output_location_

\* The ASSERTs of set_in; both ASSERTs on a pair read At(0).
set_in_ASSERT(z, index, loc) ==
  /\ index >= 0
  /\ index < num_inputs_
  /\ always_calls =>
       IF IsUnallocated(loc) THEN policy(loc) = kAny
       ELSE IF IsPairLocation(loc) THEN
         /\ AsPairLocation_ASSERT(loc) /\ At_ASSERT(0)
         /\ (~IsUnallocated(At(z, AsPairLocation(loc), 0))
              \/ policy(At(z, AsPairLocation(loc), 0)) = kAny)
         /\ (~IsUnallocated(At(z, AsPairLocation(loc), 0))
              \/ policy(At(z, AsPairLocation(loc), 0)) = kAny)
       ELSE TRUE

set_temp_ASSERT(index, loc) ==
  /\ index >= 0
  /\ index < num_temps_
  /\ ~always_calls \/ IsMachineRegister(loc)

set_out_ASSERT(index, loc) ==
  /\ index = 0
  /\ ~always_calls
       \/ (IsMachineRegister(loc) \/ IsInvalid(loc) \/ IsPairLocation(loc))

SummarySlots == <<input_locations_, temp_locations_, output_location_>>

\* A set_in / set_temp / set_out call: its ASSERTs, then its one assignment.
\* A failed ASSERT records the slots it stopped at.
SummaryCall(name, index, loc, ok) ==
  /\ ~aborted
  /\ last' = [op |-> name, args |-> <<index, loc>>, ok |-> ok,
              before |-> IF ok THEN <<>> ELSE SummarySlots]
  /\ aborted' = ~ok
  /\ UNCHANGED <<ARCH_IS_64_BIT, zone, locVars, regVars, contains_call_>>

set_in(index, loc) ==
  /\ SummaryCall("set_in", index, loc, set_in_ASSERT(zone, index, loc))
  /\ input_locations_' =
       IF set_in_ASSERT(zone, index, loc)
       THEN [input_locations_ EXCEPT ![index + 1] = loc]
       ELSE input_locations_
  /\ UNCHANGED <<temp_locations_, output_location_>>

set_temp(index, loc) ==
  /\ SummaryCall("set_temp", index, loc, set_temp_ASSERT(index, loc))
  /\ temp_locations_' =
       IF set_temp_ASSERT(index, loc)
       THEN [temp_locations_ EXCEPT ![index + 1] = loc]
       ELSE temp_locations_
  /\ UNCHANGED <<input_locations_, output_location_>>

set_out(index, loc) ==
  /\ SummaryCall("set_out", index, loc, set_out_ASSERT(index, loc))
  /\ output_location_' =
       IF set_out_ASSERT(index, loc) THEN loc ELSE output_location_
  /\ UNCHANGED <<input_locations_, temp_locations_>>

(***************************************************************************)
(* SpecSummary: a LocationSummary(zone, NumInputs, NumTemps, mode) and the *)
(* set_in, set_temp and set_out calls on it.  The pairs the caller passes  *)
(* were built, in this order, before the summary.                          *)
(***************************************************************************)
NumInputs == 1
NumTemps == 1

RequiresRegister == UnallocatedLocation(kRequiresRegister)

SummaryPairComponents ==
  << <<Any, RequiresRegister>>, <<RequiresRegister, Any>> >>

RECURSIVE PairsBuilt(_)
PairsBuilt(n) ==
  IF n = 0 THEN <<>>
  ELSE PairZone(SummaryPairComponents[n][1], SummaryPairComponents[n][2],
                PairsBuilt(n - 1))

SummaryPairs ==
  {Pair(SummaryPairComponents[n][1], SummaryPairComponents[n][2], PairsBuilt(n - 1)) :
     n \in 1 .. Len(SummaryPairComponents)}

SummaryLocations ==
  {NoLocation, Any, RequiresRegister, RegisterLocation(0), FpuRegisterLocation(1),
   StackSlot(-1, FPREG)} \cup SummaryPairs

\* LocationSummary::LocationSummary (locations.cc): every slot is Invalid.
\* The setters do not depend on the word size; the target is a 64-bit one.
InitSummary ==
  /\ ARCH_IS_64_BIT = TRUE
  /\ aborted = FALSE
  /\ zone = PairsBuilt(Len(SummaryPairComponents))
  /\ locA = NoLocation /\ madeA = Made("Invalid", <<>>)
  /\ locB = NoLocation /\ madeB = Made("Invalid", <<>>)
  /\ last = NoCallYet
  /\ NoRegisterSet
  /\ contains_call_ \in ContainsCalls
  /\ input_locations_ = [i \in 1 .. NumInputs |-> NoLocation]
  /\ temp_locations_ = [i \in 1 .. NumTemps |-> NoLocation]
  /\ output_location_ = NoLocation

\* One call of each setter is made with an index past the end.
NextSummary ==
  \/ \E i \in 0 .. (NumInputs - 1), l \in SummaryLocations : set_in(i, l)
  \/ \E i \in 0 .. (NumTemps - 1), l \in SummaryLocations : set_temp(i, l)
  \/ \E l \in SummaryLocations : set_out(0, l)
  \/ set_in(NumInputs, Any)
  \/ set_temp(NumTemps, RegisterLocation(0))
  \/ set_out(1, NoLocation)

SpecSummary == InitSummary /\ [][NextSummary]_vars

CallModes == {kCall, kCallCalleeSafe}
BareNonAny(l) == IsUnallocated(l) /\ policy(l) # kAny

\* C4: in a summary of mode Call or CallCalleeSafe no input slot holds an
\* Unallocated location of a policy other than Any, every temp slot is
\* Invalid or a Register or FpuRegister, and the output is a machine
\* register, Invalid or a pair-reference.  In every mode a rejected call
\* leaves all slots as they were and an accepted one has stored its location.
\* Unallocated(Any) as an input and a machine register as a temp are accepted.
C4_CallModeLegality ==
  /\ contains_call_ \in CallModes =>
       /\ \A i \in 0 .. (num_inputs_ - 1) : ~BareNonAny(in(i))
       /\ \A i \in 0 .. (num_temps_ - 1) :
            IsInvalid(temp(i)) \/ IsRegister(temp(i)) \/ IsFpuRegister(temp(i))
       /\ \/ IsRegister(out(0)) \/ IsFpuRegister(out(0))
          \/ IsInvalid(out(0)) \/ IsPairLocation(out(0))
  /\ (last.op \in {"set_in", "set_temp", "set_out"} /\ ~last.ok) =>
       SummarySlots = last.before
  /\ (last.op = "set_in" /\ last.ok) => in(last.args[1]) = last.args[2]
  /\ (last.op = "set_temp" /\ last.ok) => temp(last.args[1]) = last.args[2]
  /\ (last.op = "set_out" /\ last.ok) => out(0) = last.args[2]
  /\ (last.op = "set_in" /\ last.args[1] \in 0 .. (num_inputs_ - 1)
        /\ last.args[2] = Any) => last.ok
  /\ (last.op = "set_temp" /\ last.args[1] \in 0 .. (num_temps_ - 1)
        /\ (IsRegister(last.args[2]) \/ IsFpuRegister(last.args[2]))) => last.ok

\* C4 witness: in mode Call, with Unallocated(Any) as input and a register as
\* temp, set_in of Unallocated(RequiresRegister) was rejected.
C4_Witness ==
  /\ contains_call_ = kCall
  /\ in(0) = Any
  /\ temp(0) = RegisterLocation(0)
  /\ last.op = "set_in" /\ last.args = <<0, RequiresRegister>> /\ ~last.ok
  /\ aborted

\* C5: in mode Call or CallCalleeSafe, set_in of a pair-reference at a valid
\* index is rejected exactly when component 0 or component 1 of the pair is
\* an Unallocated location of a policy other than Any.
C5_PairInputComponentwise ==
  (/\ contains_call_ \in CallModes
   /\ last.op = "set_in"
   /\ last.args[1] \in 0 .. (num_inputs_ - 1)
   /\ IsPairLocation(last.args[2])) =>
     (last.ok <=> (/\ ~BareNonAny(Component(zone, last.args[2], 0))
                   /\ ~BareNonAny(Component(zone, last.args[2], 1))))

(***************************************************************************)
(* SpecVariant: the caller builds Locations of every variant, pairs        *)
(* included, and asks each variant predicate about them.                   *)
(***************************************************************************)
\* ConstantInstr addresses with every value of the address bits under the
\* kind field.
AlignedConstantInstrs == {256 + (4 * j) : j \in 0 .. 7}
VariantStackIndexes == {-kStackIndexBias, kStackIndexBias - 1}

\* The caller builds its operands first and pairs them afterwards.
NextVariant ==
  \/ /\ zone = <<>>
     /\ \E s \in Slots :
          \/ MakeNoLocation(s)
          \/ \E obj \in AlignedConstantInstrs : MakeConstant(s, obj)
          \/ \E p \in Policies : MakeUnallocated(s, p)
          \/ \E r \in RegisterCodes : MakeRegister(s, r)
          \/ \E r \in FpuRegisterCodes : MakeFpuRegister(s, r)
          \/ \E i \in VariantStackIndexes, b \in BaseRegisters :
               MakeStackSlot(s, i, b)
          \/ \E i \in VariantStackIndexes, b \in BaseRegisters :
               MakeDoubleStackSlot(s, i, b)
          \/ \E i \in VariantStackIndexes, b \in BaseRegisters :
               MakeQuadStackSlot(s, i, b)
  \/ \E s \in Slots, x \in Slots, y \in Slots :
       DoPair(s, SlotValue(x), SlotValue(y))

SpecVariant == InitLoc /\ [][NextVariant]_vars

\* The variants whose predicate is true of a Location, each named as its
\* constructor is.
Variants(l) ==
  {v \in {"Invalid", "Constant", "Pair", "Unallocated", "Register",
          "FpuRegister", "StackSlot", "DoubleStackSlot", "QuadStackSlot"} :
     CASE v = "Invalid" -> IsInvalid(l)
       [] v = "Constant" -> IsConstant(l)
       [] v = "Pair" -> IsPairLocation(l)
       [] v = "Unallocated" -> IsUnallocated(l)
       [] v = "Register" -> IsRegister(l)
       [] v = "FpuRegister" -> IsFpuRegister(l)
       [] v = "StackSlot" -> IsStackSlot(l)
       [] v = "DoubleStackSlot" -> IsDoubleStackSlot(l)
       [] v = "QuadStackSlot" -> IsQuadStackSlot(l)}

\* C13: of IsInvalid, IsConstant, IsPairLocation, IsUnallocated, IsRegister,
\* IsFpuRegister, IsStackSlot, IsDoubleStackSlot and IsQuadStackSlot exactly
\* one is true of a Location built by a constructor, the one of that
\* constructor; so it is for the components of a pair.
C13_PredicatesPartition ==
  /\ Variants(locA) = {madeA.ctor}
  /\ Variants(locB) = {madeB.ctor}
  /\ \A s \in Slots :
       IsPairLocation(SlotValue(s)) =>
         \A i \in {0, 1} :
           Cardinality(Variants(Component(zone, SlotValue(s), i))) = 1

\* C13 witness: a Constant whose address bits under the kind field read as
\* kFpuRegister + kConstantTag, beside a pair of that constant and itself.
C13_Witness ==
  /\ madeA = Made("Constant", <<268>>)
  /\ kind(locA) = kFpuRegister + kConstantTag
  /\ madeB = Made("Pair", <<locA, locA>>)
  /\ Variants(locA) = {"Constant"}
  /\ Variants(locB) = {"Pair"}

(***************************************************************************)
(* SpecTwice: the caller builds a Location in slot A, rebases it, and      *)
(* rebases the result with the same FrameRebase.                           *)
(***************************************************************************)
\* FrameRebase(old, new, delta).Rebase(l) for the l the last Rebase returned
DoRebaseAgain(order) ==
  /\ ~aborted
  /\ last.op = "Rebase"
  /\ last.ok
  /\ LET frame == Frame(last.args[1], last.args[2], last.args[3])
         r == Rebase(frame, last.out, zone, order)
     IN /\ Len(r.zone) <= MaxPairs
        /\ last' = [op |-> "RebaseAgain", args |-> last.args, ok |-> r.ok,
                    in |-> last.out, made |-> last.made, first |-> last.in,
                    placement |-> Placement(zone, last.out),
                    out |-> IF r.ok THEN r.loc ELSE NoLocation]
        /\ aborted' = ~r.ok
        /\ zone' = IF r.ok THEN r.zone ELSE zone
  /\ UNCHANGED <<ARCH_IS_64_BIT, locVars, regVars, sumVars>>

NextTwice ==
  \/ MakeNoLocation("A")
  \/ \E obj \in ConstantInstrs : MakeConstant("A", obj)
  \/ \E p \in {kAny, kRequiresRegister} : MakeUnallocated("A", p)
  \/ \E r \in {0, FPREG} : MakeRegister("A", r)
  \/ \E r \in {0, FPREG} : MakeFpuRegister("A", r)
  \/ \E i \in RebaseIndexes, b \in RebaseBases : MakeStackSlot("A", i, b)
  \/ \E i \in RebaseIndexes, b \in RebaseBases : MakeDoubleStackSlot("A", i, b)
  \/ \E i \in RebaseIndexes, b \in RebaseBases : MakeQuadStackSlot("A", i, b)
  \/ \E f \in RebaseFrames, o \in Orders : DoRebase(f, o)
  \/ \E o \in Orders : DoRebaseAgain(o)

SpecTwice == InitLoc /\ [][NextTwice]_vars

\* C14: with old_base # new_base, Rebase of what Rebase returned for a
\* location that is no pair returns, and returns a location Equals to its
\* argument; a StackSlot, DoubleStackSlot or QuadStackSlot is rebased to a
\* location of its own kind.  With old_base = new_base the second Rebase of
\* a slot on that base, when it returns, has added stack_delta once more.
C14_RebaseIdempotent ==
  /\ (last.op \in {"Rebase", "RebaseAgain"} /\ last.ok
        /\ HasStackIndex(last.in)) =>
       /\ kind(last.out) = kind(last.in)
       /\ IsStackSlot(last.in) => IsStackSlot(last.out)
       /\ IsDoubleStackSlot(last.in) => IsDoubleStackSlot(last.out)
       /\ IsQuadStackSlot(last.in) => IsQuadStackSlot(last.out)
  /\ (last.op = "RebaseAgain" /\ last.args[1] # last.args[2]) =>
       (last.ok /\ Equals(last.out, last.in))
  /\ (/\ last.op = "RebaseAgain" /\ last.ok
      /\ last.args[1] = last.args[2]
      /\ last.made.ctor \in StackConstructors
      /\ last.made.args[2] = last.args[1]) =>
       stack_index(last.out) = last.made.args[1] + (2 * last.args[3])

\* C14 witness: DoubleStackSlot(-3, FP) rebased by FrameRebase(FP, SP, 10) is
\* DoubleStackSlot(7, SP), and rebased again it is DoubleStackSlot(7, SP).
C14_Witness ==
  /\ last.op = "RebaseAgain" /\ last.ok
  /\ last.made = Made("DoubleStackSlot", <<-3, FPREG>>)
  /\ last.args = <<FPREG, SPREG, 10>>
  /\ last.first = DoubleStackSlot(-3, FPREG)
  /\ last.in = DoubleStackSlot(7, SPREG)
  /\ last.out = DoubleStackSlot(7, SPREG)

====
